---- MODULE Spec2Model ----
(***************************************************************************)
(* scantree: recursive, symlink-aware directory tree traversal.            *)
(*                                                                         *)
(* Path strings are sequences of one-character strings, so that           *)
(* os.path.join, os.path.realpath and the string order used by sorted()    *)
(* are computed as the code computes them.  A file system is a set of      *)
(* directory entries; it does not change during a traversal.               *)
(***************************************************************************)
EXTENDS Integers, Sequences, FiniteSets, TLC

\* ------------------------------------------------------------ bounds
\* Number of optional entries (links and files) added to the skeleton tree.
MaxExtra == 2
\* Number of scantree arguments that differ from the defaults of its signature.
MaxNonDefault == 2
\* Cap on the depth of the recursion stack of one call.
MaxDepth == 12

\* ------------------------------------------------------------ strings
\* The characters that occur in paths, in code point order.
CharOrder == <<"/", "A", "B", "C", "D", "X", "f", "g", "l", "o", "r", "t">>

CharRank(c) == CHOOSE i \in 1..Len(CharOrder) : CharOrder[i] = c

\* Python's < on str.
RECURSIVE StrLess(_, _)
StrLess(a, b) ==
  IF a = <<>> THEN b # <<>>
  ELSE IF b = <<>> THEN FALSE
  ELSE IF Head(a) = Head(b) THEN StrLess(Tail(a), Tail(b))
  ELSE CharRank(Head(a)) < CharRank(Head(b))

\* posixpath.join(a, b)
os_path_join(a, b) ==
  IF b # <<>> /\ Head(b) = "/" THEN b
  ELSE IF a = <<>> \/ a[Len(a)] = "/" THEN a \o b
  ELSE a \o <<"/">> \o b

\* The components of a path string (empty components dropped).
RECURSIVE SplitPath(_)
SplitPath(p) ==
  IF p = <<>> THEN <<>>
  ELSE IF Head(p) = "/" THEN SplitPath(Tail(p))
  ELSE LET rest == SplitPath(Tail(p))
       IN IF Len(p) > 1 /\ p[2] # "/"
          THEN <<(<<Head(p)>> \o Head(rest))>> \o Tail(rest)
          ELSE <<(<<Head(p)>>)>> \o rest

\* posixpath.basename(p): what follows the last "/".
RECURSIVE os_path_basename(_)
os_path_basename(p) ==
  IF p = <<>> THEN <<>>
  ELSE IF \E i \in 1..Len(p) : p[i] = "/"
       THEN os_path_basename(Tail(p))
       ELSE p

\* ------------------------------------------------------------ file system
FsRoot == <<"/">>
Dir_r == <<"/", "r">>
Dir_A == <<"/", "r", "/", "A">>
Dir_B == <<"/", "r", "/", "A", "/", "B">>
Dir_C == <<"/", "r", "/", "A", "/", "C">>
Dir_D == <<"/", "r", "/", "D">>
Dir_X == <<"/", "X">>
Link_lr == <<"/", "l", "r">>
File_g == <<"/", "g">>
Missing == <<"/", "o">>

Entry(parent, name, kind, target) ==
  [parent |-> parent, name |-> name, kind |-> kind, target |-> target]

\* Always present: /r/{A/{B,C},D}, the external directory /X, the file /g
\* and /lr -> /r.
Skeleton ==
  { Entry(FsRoot, <<"r">>, "dir", <<>>),
    Entry(FsRoot, <<"X">>, "dir", <<>>),
    Entry(FsRoot, <<"g">>, "file", <<>>),
    Entry(FsRoot, <<"l", "r">>, "link", Dir_r),
    Entry(Dir_r, <<"A">>, "dir", <<>>),
    Entry(Dir_A, <<"B">>, "dir", <<>>),
    Entry(Dir_A, <<"C">>, "dir", <<>>),
    Entry(Dir_r, <<"D">>, "dir", <<>>) }

\* Links and files a tree may hold in addition.
Optional ==
  { Entry(Dir_B, <<"t", "o", "A">>, "link", Dir_A),
    Entry(Dir_C, <<"t", "o", "B">>, "link", Dir_B),
    Entry(Dir_D, <<"t", "o", "B">>, "link", Dir_B),
    Entry(Dir_D, <<"t", "o", "X">>, "link", Dir_X),
    Entry(Dir_X, <<"t", "o", "D">>, "link", Dir_D),
    Entry(Dir_B, <<"t", "o", "r">>, "link", Dir_r),
    Entry(Dir_r, <<"f">>, "file", <<>>),
    Entry(Dir_B, <<"f">>, "file", <<>>),
    Entry(Dir_D, <<"l", "f">>, "link", Dir_B \o <<"/", "f">>) }

FileSystems ==
  { Skeleton \cup S : S \in { T \in SUBSET Optional : Cardinality(T) <= MaxExtra } }

\* The entry `name` of the real directory `cur`, as a set of 0 or 1 entries.
Lookup(F, cur, name) == { e \in F : e.parent = cur /\ e.name = name }

\* Walk the components from the canonical directory `cur`, replacing a link
\* by the resolution of its target.
RECURSIVE Resolve(_, _, _)
Resolve(F, cur, comps) ==
  IF comps = <<>> THEN cur
  ELSE LET hit == Lookup(F, cur, Head(comps))
       IN IF hit # {} /\ (CHOOSE e \in hit : TRUE).kind = "link"
          THEN Resolve(F,
                       Resolve(F, FsRoot, SplitPath((CHOOSE e \in hit : TRUE).target)),
                       Tail(comps))
          ELSE Resolve(F, os_path_join(cur, Head(comps)), Tail(comps))

\* os.path.realpath(p), p absolute.
os_path_realpath(F, p) == Resolve(F, FsRoot, SplitPath(p))

\* Kind of the object at the canonical path p: "dir", "file" or "none".
KindAt(F, p) ==
  IF p = FsRoot THEN "dir"
  ELSE LET hit == { e \in F : os_path_join(e.parent, e.name) = p /\ e.kind # "link" }
       IN IF hit = {} THEN "none" ELSE (CHOOSE e \in hit : TRUE).kind

os_path_exists(F, p) == KindAt(F, os_path_realpath(F, p)) # "none"
os_path_isdir(F, p) == KindAt(F, os_path_realpath(F, p)) = "dir"
os_path_isfile(F, p) == KindAt(F, os_path_realpath(F, p)) = "file"

\* os.path.islink(p): lstat of the last component.
os_path_islink(F, p) ==
  LET comps == SplitPath(p)
  IN comps # <<>> /\
     LET parent == Resolve(F, FsRoot, SubSeq(comps, 1, Len(comps) - 1))
         hit == Lookup(F, parent, comps[Len(comps)])
     IN hit # {} /\ (CHOOSE e \in hit : TRUE).kind = "link"

\* ------------------------------------------------------------ Path Identity
\* An os.DirEntry or DirEntryReplacement with its cached properties.
DirEntry(path, name, isdir, isfile, islink) ==
  [path |-> path, name |-> name, is_dir |-> isdir, is_file |-> isfile,
   is_symlink |-> islink]

\* DirEntryReplacement.from_path(path); the path exists.
DirEntryReplacement_from_path(F, path) ==
  DirEntry(path,
           IF os_path_basename(path) = <<>>
           THEN os_path_basename(os_path_realpath(F, path))
           ELSE os_path_basename(path),
           os_path_isdir(F, path), os_path_isfile(F, path), os_path_islink(F, path))

RecursionPath(root, relative, real, dir_entry) ==
  [root |-> root, relative |-> relative, real |-> real, dir_entry |-> dir_entry]

is_symlink(p) == p.dir_entry.is_symlink
is_dir(p) == p.dir_entry.is_dir
\* is_file() that does not follow a symlink: what C20 is sensitive to.
is_file_nofollow(p) == p.dir_entry.is_file /\ ~p.dir_entry.is_symlink

is_file(p) == p.dir_entry.is_file

\* RecursionPath.from_root(directory)
from_root(F, directory) ==
  LET dir_entry == DirEntryReplacement_from_path(F, directory)
  IN RecursionPath(dir_entry.path, <<>>, os_path_realpath(F, dir_entry.path), dir_entry)

\* RecursionPath.absolute
absolute(p) == IF p.relative = <<>> THEN p.root ELSE os_path_join(p.root, p.relative)

\* The DirEntry objects os.scandir(dirpath) yields, as a set.
os_scandir(F, dirpath) ==
  LET opened == os_path_realpath(F, dirpath)
  IN { DirEntry(os_path_join(dirpath, e.name), e.name,
                os_path_isdir(F, os_path_join(e.parent, e.name)),
                os_path_isfile(F, os_path_join(e.parent, e.name)),
                e.kind = "link") :
       e \in { x \in F : x.parent = opened } }

\* _join without the realpath of a symlink entry: what C27 is sensitive to.
RecursionPath_join_no_realpath(F, self, dir_entry) ==
  RecursionPath(self.root, os_path_join(self.relative, dir_entry.name),
                os_path_join(self.real, dir_entry.name), dir_entry)

\* RecursionPath._join(dir_entry)
RecursionPath_join(F, self, dir_entry) ==
  LET relative == os_path_join(self.relative, dir_entry.name)
      real == os_path_join(self.real, dir_entry.name)
  IN RecursionPath(self.root, relative,
                   IF dir_entry.is_symlink THEN os_path_realpath(F, real) ELSE real,
                   dir_entry)

\* RecursionPath.scandir(), as the set of paths it generates.
RecursionPath_scandir(F, self) ==
  { RecursionPath_join(F, self, de) : de \in os_scandir(F, absolute(self)) }

\* The orders in which the OS may enumerate a set of entries.
RECURSIVE Enumerations(_)
Enumerations(S) ==
  IF S = {} THEN { <<>> }
  ELSE UNION { { <<x>> \o rest : rest \in Enumerations(S \ {x}) } : x \in S }

\* Equality that compares the dir entry too: what C22 is sensitive to.
RecursionPath_eq_with_dir_entry(p, q) == p = q

\* attrs __eq__ of RecursionPath: the fields root, relative and real;
\* _dir_entry is declared with eq=False.
RecursionPath_eq(p, q) == p.root = q.root /\ p.relative = q.relative /\ p.real = q.real

\* attrs order on RecursionPath: the tuples (root, relative, real).
PathLess(p, q) ==
  IF p.root # q.root THEN StrLess(p.root, q.root)
  ELSE IF p.relative # q.relative THEN StrLess(p.relative, q.relative)
  ELSE StrLess(p.real, q.real)

RECURSIVE InsertSorted(_, _)
InsertSorted(x, s) ==
  IF s = <<>> THEN <<x>>
  ELSE IF PathLess(x, Head(s)) THEN <<x>> \o s
  ELSE <<Head(s)>> \o InsertSorted(x, Tail(s))

\* The listing left in the order of the OS: what C17 is sensitive to.
unsorted(s) == s

\* sorted(paths)
RECURSIVE sorted(_)
sorted(s) == IF s = <<>> THEN <<>> ELSE InsertSorted(s[Len(s)], sorted(SubSeq(s, 1, Len(s) - 1)))

\* sorted(paths) of a set of paths, whatever order they are given in.
RECURSIVE SortedOf(_)
SortedOf(S) ==
  IF S = {} THEN <<>>
  ELSE LET x == CHOOSE y \in S : TRUE
       IN InsertSorted(x, SortedOf(S \ {x}))

\* ------------------------------------------------------------ Entry Filter
Star == <<"*">>

IdentityFilter == [kind |-> "identity", linked_dirs |-> TRUE, linked_files |-> TRUE, match |-> Star]

RecursionFilter(linked_dirs, linked_files, match) ==
  [kind |-> "RecursionFilter", linked_dirs |-> linked_dirs, linked_files |-> linked_files,
   match |-> match]

\* RecursionFilter.match_file(filepath); a pattern other than '*' is a plain
\* name, which matches a path with a component of that name.
match_file(self, filepath) ==
  self.match = Star \/ \E i \in 1..Len(SplitPath(filepath)) : SplitPath(filepath)[i] = self.match

\* include() with the match patterns applied to directories too: what C19 is
\* sensitive to.
include_matching_directories(self, recursion_path) ==
  IF is_symlink(recursion_path) /\ is_dir(recursion_path) /\ ~self.linked_dirs THEN FALSE
  ELSE IF is_symlink(recursion_path) /\ is_file(recursion_path) /\ ~self.linked_files THEN FALSE
  ELSE match_file(self, recursion_path.relative)

\* RecursionFilter.include(recursion_path)
include(self, recursion_path) ==
  IF is_symlink(recursion_path) /\ is_dir(recursion_path) /\ ~self.linked_dirs THEN FALSE
  ELSE IF is_symlink(recursion_path) /\ is_file(recursion_path) /\ ~self.linked_files THEN FALSE
  ELSE IF is_dir(recursion_path) THEN TRUE
  ELSE match_file(self, recursion_path.relative)

\* recursion_filter(paths): identity, or RecursionFilter.__call__
RECURSIVE recursion_filter(_, _)
recursion_filter(self, paths) ==
  IF self.kind = "identity" \/ paths = <<>> THEN paths
  ELSE IF include(self, Head(paths))
       THEN <<Head(paths)>> \o recursion_filter(self, Tail(paths))
       ELSE recursion_filter(self, Tail(paths))

\* ------------------------------------------------------------ Tree Node Model
\* DirNode(path, files, directories): positional order of the attrs fields.
DirNode(path, files, directories) ==
  [type |-> "DirNode", path |-> path, files |-> files, directories |-> directories]

LinkedDir(path) == [type |-> "LinkedDir", path |-> path]

CyclicLinkedDir(path, target_path) ==
  [type |-> "CyclicLinkedDir", path |-> path, target_path |-> target_path]

\* DirNode.empty
empty(dir_node) == ~(dir_node.files # <<>> \/ dir_node.directories # <<>>)

is_empty_dir_node(dir_node) == dir_node.type = "DirNode" /\ empty(dir_node)

AttributeError(node_type, name) ==
  [type |-> "AttributeError", node |-> node_type, attribute |-> name]

\* What reading an attribute returns.
Returns(value) == [type |-> "value", value |-> value]

NodeAttributes == {"files", "directories", "entries", "empty"}

\* The properties with LinkedDir.empty returning False as CyclicLinkedDir.empty
\* does: what C21 is sensitive to.
node_getattr_empty_false(node, name) ==
  IF node.type = "DirNode"
  THEN IF name = "files" THEN Returns(node.files)
       ELSE IF name = "directories" THEN Returns(node.directories)
       ELSE IF name = "entries" THEN Returns(node.files \o node.directories)
       ELSE Returns(empty(node))
  ELSE IF name = "empty" THEN Returns(FALSE)
  ELSE AttributeError(node.type, name)

\* node.files, node.directories, node.entries and node.empty: the attrs fields
\* and the properties of DirNode, LinkedDir and CyclicLinkedDir.
node_getattr(node, name) ==
  IF node.type = "DirNode"
  THEN IF name = "files" THEN Returns(node.files)
       ELSE IF name = "directories" THEN Returns(node.directories)
       ELSE IF name = "entries" THEN Returns(node.files \o node.directories)
       ELSE Returns(empty(node))
  ELSE IF node.type = "LinkedDir"
  THEN AttributeError("LinkedDir", name)
  ELSE IF name = "empty" THEN Returns(FALSE)
  ELSE AttributeError("CyclicLinkedDir", name)

identity(x) == x

None == [type |-> "None"]

\* ------------------------------------------------------------ errors
ValueError(message) == [type |-> "ValueError", message |-> message]

KeyError(key) == [type |-> "KeyError", key |-> key]

\* SymlinkRecursionError(path, target_path); the message of
\* pathspec's RecursionError names real_path, first_path and second_path.
SymlinkRecursionError(path, target_path) ==
  LET real_path == path.real
      first_path == os_path_join(target_path.root, target_path.relative)
      second_path == os_path_join(path.root, path.relative)
  IN [type |-> "SymlinkRecursionError", real_path |-> real_path,
      first_path |-> first_path, second_path |-> second_path,
      message |-> <<real_path, first_path, second_path>>]

\* ------------------------------------------------------------ transforms
\* A caller's dir_apply that wraps its argument, as `lambda x: (x, 1)`.
d_tag(dir_node) == [type |-> "d_tag", arg |-> dir_node]

\* A caller's file_apply that wraps its argument.
f_tag(x) == [type |-> "f_tag", arg |-> x]

\* dir_apply(dir_node): the caller's default and the identity of _node.py
\* both return the node.
\* The closures of leafpaths() and filepaths() append and return None.
call_dir_apply(fn, dir_node) ==
  IF fn = "d_tag" THEN d_tag(dir_node)
  ELSE IF fn = "leafpaths.dir_apply" THEN None
  ELSE identity(dir_node)

\* The caller's file_apply(path); the default is the identity.
call_file_apply(fn, path) ==
  IF fn = "f_tag" THEN f_tag(path)
  ELSE IF fn \in {"leafpaths.file_apply", "filepaths.file_apply"} THEN None
  ELSE identity(path)

\* One call of the file_apply a traversal was given, never behind the cache:
\* what C18 is sensitive to.
file_apply_step_uncached(kw, path, cache_, file_paths_, log_) ==
  IF kw.file_apply = "extract_paths"
  THEN [value |-> Len(file_paths_), cache |-> cache_,
        file_paths |-> Append(file_paths_, path), log |-> log_]
  ELSE [value |-> call_file_apply(kw.file_apply, path), cache |-> cache_,
        file_paths |-> file_paths_, log |-> Append(log_, path)]

\* One call of the file_apply a traversal was given: the caller's function
\* or extract_paths (_scantree_multiprocess), behind _cached_by_realpath when
\* cache_file_apply is set.  Yields the value and the updated cache,
\* file_paths and log of the caller's file_apply invocations.
file_apply_step(kw, path, cache_, file_paths_, log_) ==
  LET plain ==
        IF kw.file_apply = "extract_paths"
        THEN [value |-> Len(file_paths_), file_paths |-> Append(file_paths_, path),
              log |-> log_]
        ELSE [value |-> call_file_apply(kw.file_apply, path), file_paths |-> file_paths_,
              log |-> Append(log_, path)]
  IN IF ~kw.cache_file_apply
     THEN [value |-> plain.value, cache |-> cache_, file_paths |-> plain.file_paths,
           log |-> plain.log]
     ELSE IF path.real \in DOMAIN cache_
     THEN [value |-> cache_[path.real], cache |-> cache_, file_paths |-> file_paths_,
           log |-> log_]
     ELSE [value |-> plain.value,
           cache |-> [k \in DOMAIN cache_ \cup {path.real} |->
                        IF k = path.real THEN plain.value ELSE cache_[k]],
           file_paths |-> plain.file_paths, log |-> plain.log]

\* What the logs keep of a node handed to dir_apply.
NodeKey(node) == [type |-> node.type, relative |-> node.path.relative]

\* DirNode.apply / LinkedDir.apply / CyclicLinkedDir.apply with fetch_result
\* as file_apply: the result and the nodes dir_apply was called with.
RECURSIVE node_apply(_, _, _)
node_apply(self, dir_apply, file_results) ==
  IF self.type # "DirNode"
  THEN [value |-> call_dir_apply(dir_apply, self), log |-> <<NodeKey(self)>>]
  ELSE LET subs == [i \in 1..Len(self.directories) |->
                      node_apply(self.directories[i], dir_apply, file_results)]
           RECURSIVE Logs(_)
           Logs(i) == IF i > Len(subs) THEN <<>> ELSE subs[i].log \o Logs(i + 1)
           dir_node == DirNode(self.path,
                               [i \in 1..Len(subs) |-> subs[i].value],
                               [i \in 1..Len(self.files) |-> file_results[self.files[i] + 1]])
       IN [value |-> call_dir_apply(dir_apply, dir_node),
           log |-> Logs(1) \o <<NodeKey(dir_node)>>]

\* DirNode.apply / LinkedDir.apply / CyclicLinkedDir.apply: the value returned
\* and, in order, the calls of file_apply and dir_apply with their arguments.
RECURSIVE apply(_, _, _)
apply(self, dir_apply, file_apply) ==
  IF self.type # "DirNode"
  THEN [value |-> call_dir_apply(dir_apply, self),
        calls |-> <<[fn |-> "dir_apply", arg |-> self]>>]
  ELSE LET subs == [i \in 1..Len(self.directories) |->
                      apply(self.directories[i], dir_apply, file_apply)]
           RECURSIVE SubCalls(_)
           SubCalls(i) == IF i > Len(subs) THEN <<>> ELSE subs[i].calls \o SubCalls(i + 1)
           dir_node == DirNode(self.path,
                               [i \in 1..Len(subs) |-> subs[i].value],
                               [i \in 1..Len(self.files) |->
                                  call_file_apply(file_apply, self.files[i])])
       IN [value |-> call_dir_apply(dir_apply, dir_node),
           calls |-> SubCalls(1)
                       \o [i \in 1..Len(self.files) |->
                             [fn |-> "file_apply", arg |-> self.files[i]]]
                       \o <<[fn |-> "dir_apply", arg |-> dir_node]>>]

\* sorted(paths, key=lambda path: path.relative) without the sort: what C15 is
\* sensitive to.
unsorted_by_relative(s) == s

RECURSIVE InsertByRelative(_, _)
InsertByRelative(x, s) ==
  IF s = <<>> THEN <<x>>
  ELSE IF StrLess(x.relative, Head(s).relative) THEN <<x>> \o s
  ELSE <<Head(s)>> \o InsertByRelative(x, Tail(s))

\* sorted(paths, key=lambda path: path.relative); the sort is stable.
RECURSIVE sorted_by_relative(_)
sorted_by_relative(s) ==
  IF s = <<>> THEN <<>>
  ELSE InsertByRelative(s[Len(s)], sorted_by_relative(SubSeq(s, 1, Len(s) - 1)))

\* The test of leafpaths' dir_apply taking every node for a leaf: what C16 is
\* sensitive to.
is_leaf_always(dir_node) == TRUE

\* `isinstance(dir_node, (LinkedDir, CyclicLinkedDir)) or dir_node.empty`
is_leaf(dir_node) ==
  IF dir_node.type \in {"LinkedDir", "CyclicLinkedDir"} THEN TRUE ELSE empty(dir_node)

\* What the closures of leafpaths() append to leafs for the calls of an apply.
RECURSIVE leafs_appended(_)
leafs_appended(calls) ==
  IF calls = <<>> THEN <<>>
  ELSE (IF Head(calls).fn = "file_apply" THEN <<Head(calls).arg>>
        ELSE IF is_leaf(Head(calls).arg) THEN <<Head(calls).arg.path>>
        ELSE <<>>) \o leafs_appended(Tail(calls))

\* DirNode.leafpaths()
leafpaths(self) ==
  sorted_by_relative(
    leafs_appended(apply(self, "leafpaths.dir_apply", "leafpaths.file_apply").calls))

\* What the closure of filepaths() appends to files for the calls of an apply.
RECURSIVE files_appended(_)
files_appended(calls) ==
  IF calls = <<>> THEN <<>>
  ELSE (IF Head(calls).fn = "file_apply" THEN <<Head(calls).arg>> ELSE <<>>)
         \o files_appended(Tail(calls))

\* DirNode.filepaths()
filepaths(self) ==
  sorted_by_relative(files_appended(apply(self, "identity", "filepaths.file_apply").calls))

\* ------------------------------------------------------------ state
Calls == {1, 2}

VARIABLES
  fs,           \* the file system
  opt,          \* opt[c]: the arguments the caller passed to scantree
  kw,           \* kw[c]: the arguments of the scantree invocation now running
  mp,           \* mp[c]: inside _scantree_multiprocess
  pc,           \* pc[c]: idle, scantree, recursive, pool_map, apply, done, raised
  stack,        \* stack[c]: the open _scantree_recursive calls, innermost last
  parents,      \* parents[c]: real path -> RecursionPath
  ret,          \* ret[c]: value returned by the _scantree_recursive call that ended last
  cache,        \* cache[c]: the dict of _cached_by_realpath
  file_paths,   \* file_paths[c]: list of _scantree_multiprocess
  result,       \* result[c]: what scantree returned
  error,        \* error[c]: what scantree raised
  scanned,      \* scanned[c]: the paths whose scandir() was called, in order
  dir_applied,  \* dir_applied[c]: the nodes the caller's dir_apply was called with
  file_applied, \* file_applied[c]: the paths the caller's file_apply was called with
  dropped,      \* dropped[c]: the nodes line 304 left out of their parent
  method        \* method[c]: the method called on the tree that call c returned

vars == <<fs, opt, kw, mp, pc, stack, parents, ret, cache, file_paths, result, error,
          scanned, dir_applied, file_applied, dropped, method>>

Frame(path, phase, pending, dirs, files) ==
  [path |-> path, phase |-> phase, pending |-> pending, dirs |-> dirs, files |-> files]

Top(c) == stack[c][Len(stack[c])]

Pop(s) == SubSeq(s, 1, Len(s) - 1)

ReplaceTop(s, f) == [s EXCEPT ![Len(s)] = f]

EmptyMap == [k \in {} |-> None]

\* ------------------------------------------------------------ inputs
Directories == {Dir_r, Link_lr, File_g, Missing}

Filters ==
  { IdentityFilter,
    RecursionFilter(FALSE, TRUE, Star),
    RecursionFilter(TRUE, FALSE, Star),
    RecursionFilter(TRUE, TRUE, <<"f">>) }

AllArguments ==
  [directory : Directories, recursion_filter : Filters, file_apply : {"file_apply"},
   dir_apply : {"dir_apply"}, follow_links : BOOLEAN, allow_cyclic_links : BOOLEAN,
   cache_file_apply : BOOLEAN, include_empty : BOOLEAN, jobs : {1, 2}]

\* The defaults of scantree's signature, on the plain directory /r.
Defaults ==
  [directory |-> Dir_r, recursion_filter |-> IdentityFilter, file_apply |-> "file_apply",
   dir_apply |-> "dir_apply", follow_links |-> TRUE, allow_cyclic_links |-> TRUE,
   cache_file_apply |-> FALSE, include_empty |-> FALSE, jobs |-> 1]

Arguments ==
  { a \in AllArguments :
      Cardinality({ k \in DOMAIN Defaults : a[k] # Defaults[k] }) <= MaxNonDefault }

\* The arguments of a call that is not made.
NoArguments == [Defaults EXCEPT !.directory = <<>>]

InitWith(active) ==
  /\ fs \in FileSystems
  /\ opt \in { [c \in Calls |-> IF c \in active THEN g[c] ELSE NoArguments] :
               g \in [active -> Arguments] }
  /\ kw = opt
  /\ mp = [c \in Calls |-> FALSE]
  /\ pc = [c \in Calls |-> IF c \in active THEN "scantree" ELSE "idle"]
  /\ stack = [c \in Calls |-> <<>>]
  /\ parents = [c \in Calls |-> EmptyMap]
  /\ ret = [c \in Calls |-> None]
  /\ cache = [c \in Calls |-> EmptyMap]
  /\ file_paths = [c \in Calls |-> <<>>]
  /\ result = [c \in Calls |-> None]
  /\ error = [c \in Calls |-> None]
  /\ scanned = [c \in Calls |-> <<>>]
  /\ dir_applied = [c \in Calls |-> <<>>]
  /\ file_applied = [c \in Calls |-> <<>>]
  /\ dropped = [c \in Calls |-> <<>>]
  /\ method = [c \in Calls |-> None]

Init == InitWith({1})

\* ------------------------------------------------------------ scantree
\* _verify_is_directory without its os.path.isdir test: what C7 is sensitive to.
verify_exists_only(F, directory) ==
  IF ~os_path_exists(F, directory) THEN ValueError(<<directory, "No such directory">>)
  ELSE None

\* _verify_is_directory(directory): the error it raises, or None.
verify_is_directory(F, directory) ==
  IF ~os_path_exists(F, directory) THEN ValueError(<<directory, "No such directory">>)
  ELSE IF ~os_path_isdir(F, directory) THEN ValueError(<<directory, "Is not a directory">>)
  ELSE None

\* One dict for every invocation, as a module-level dict or a mutable default
\* argument would be: what C28 is sensitive to.
parents_dict_shared(c) == 1

\* `parents={path.real: path}`: the dict invocation c creates for its
\* traversal, and the only one it passes to _scantree_recursive.
parents_dict(c) == c

\* scantree(...) up to the call of _scantree_recursive, or, for jobs > 1,
\* _scantree_multiprocess up to its call of scantree.
Scantree(c) ==
  /\ pc[c] = "scantree"
  /\ LET bad == verify_is_directory(fs, kw[c].directory)
         path == from_root(fs, kw[c].directory)
     IN IF bad # None
        THEN /\ pc' = [pc EXCEPT ![c] = "raised"]
             /\ error' = [error EXCEPT ![c] = bad]
             /\ UNCHANGED <<kw, mp, stack, parents>>
        ELSE IF kw[c].jobs > 1
        THEN /\ kw' = [kw EXCEPT ![c].file_apply = "extract_paths",
                                 ![c].dir_apply = "identity", ![c].jobs = 1]
             /\ mp' = [mp EXCEPT ![c] = TRUE]
             /\ UNCHANGED <<pc, error, stack, parents>>
        ELSE /\ pc' = [pc EXCEPT ![c] = "recursive"]
             /\ stack' = [stack EXCEPT ![c] = <<Frame(path, "enter", <<>>, <<>>, <<>>)>>]
             /\ parents' = [parents EXCEPT ![parents_dict(c)] = [k \in {path.real} |-> path]]
             /\ UNCHANGED <<kw, mp, error>>
  /\ UNCHANGED <<method, fs, opt, ret, cache, file_paths, result, scanned, dir_applied, file_applied,
                 dropped>>

\* The link checks without `if not follow_links: return LinkedDir(path)`: what
\* C6 is sensitive to.
link_outcome_always_follow(kw_, path, parents_) ==
  IF ~is_symlink(path) THEN "expand"
  ELSE IF path.real \in DOMAIN parents_
       THEN IF kw_.allow_cyclic_links THEN "cyclic" ELSE "raise"
       ELSE "expand"

\* _scantree_recursive, lines 286-294: what the call does with a link.
link_outcome(kw_, path, parents_) ==
  IF ~is_symlink(path) THEN "expand"
  ELSE IF ~kw_.follow_links THEN "linked"
  ELSE IF path.real \in DOMAIN parents_
       THEN IF kw_.allow_cyclic_links THEN "cyclic" ELSE "raise"
       ELSE "expand"

\* parents[path.real] = path
register(kw_, path, parents_) ==
  IF kw_.follow_links
  THEN [k \in DOMAIN parents_ \cup {path.real} |-> IF k = path.real THEN path ELSE parents_[k]]
  ELSE parents_

\* Entry of _scantree_recursive: the link checks, the registration in parents
\* and the sorted, filtered listing of the directory.
RecEnter(c) ==
  /\ pc[c] = "recursive"
  /\ stack[c] # <<>>
  /\ Top(c).phase = "enter"
  /\ LET path == Top(c).path
         outcome == link_outcome(kw[c], path, parents[parents_dict(c)])
     IN IF outcome = "linked"
        THEN /\ ret' = [ret EXCEPT ![c] = LinkedDir(path)]
             /\ stack' = [stack EXCEPT ![c] = Pop(stack[c])]
             /\ UNCHANGED <<pc, error, parents, scanned>>
        ELSE IF outcome = "cyclic"
        THEN /\ ret' = [ret EXCEPT ![c] = CyclicLinkedDir(path, parents[parents_dict(c)][path.real])]
             /\ stack' = [stack EXCEPT ![c] = Pop(stack[c])]
             /\ UNCHANGED <<pc, error, parents, scanned>>
        ELSE IF outcome = "raise"
        THEN /\ pc' = [pc EXCEPT ![c] = "raised"]
             /\ error' = [error EXCEPT ![c] = SymlinkRecursionError(path, parents[parents_dict(c)][path.real])]
             /\ UNCHANGED <<ret, stack, parents, scanned>>
        ELSE \E listing \in Enumerations(RecursionPath_scandir(fs, path)) :
               /\ parents' = [parents EXCEPT ![parents_dict(c)] = register(kw[c], path, parents[parents_dict(c)])]
               /\ stack' = [stack EXCEPT ![c] = ReplaceTop(stack[c],
                              Frame(path, "loop",
                                    sorted(recursion_filter(kw[c].recursion_filter, listing)),
                                    <<>>, <<>>))]
               /\ scanned' = [scanned EXCEPT ![c] = Append(scanned[c], path)]
               /\ UNCHANGED <<pc, error, ret>>
  /\ UNCHANGED <<method, fs, opt, kw, mp, cache, file_paths, result, dir_applied, file_applied,
                 dropped>>

\* `if subpath.is_file(): files.append(file_apply(subpath))` and the end of
\* the loop body, for the frame f.
FileStep(c, f) ==
  LET subpath == Head(f.pending)
      r == file_apply_step(kw[c], subpath, cache[c], file_paths[c], file_applied[c])
  IN IF is_file(subpath)
     THEN /\ stack' = [stack EXCEPT ![c] = ReplaceTop(stack[c],
                         [f EXCEPT !.phase = "loop", !.pending = Tail(f.pending),
                                   !.files = Append(f.files, r.value)])]
          /\ cache' = [cache EXCEPT ![c] = r.cache]
          /\ file_paths' = [file_paths EXCEPT ![c] = r.file_paths]
          /\ file_applied' = [file_applied EXCEPT ![c] = r.log]
     ELSE /\ stack' = [stack EXCEPT ![c] = ReplaceTop(stack[c],
                         [f EXCEPT !.phase = "loop", !.pending = Tail(f.pending)])]
          /\ UNCHANGED <<cache, file_paths, file_applied>>

\* One iteration of the loop over the sorted entries: a directory is recursed
\* into (the iteration goes on in RecReturn), anything else is offered to
\* file_apply.
LoopStep(c) ==
  /\ pc[c] = "recursive"
  /\ stack[c] # <<>>
  /\ Top(c).phase = "loop"
  /\ Top(c).pending # <<>>
  /\ IF is_dir(Head(Top(c).pending))
     THEN /\ Len(stack[c]) < MaxDepth
          /\ stack' = [stack EXCEPT ![c] =
                         Append(ReplaceTop(stack[c], [Top(c) EXCEPT !.phase = "call"]),
                                Frame(Head(Top(c).pending), "enter", <<>>, <<>>, <<>>))]
          /\ UNCHANGED <<cache, file_paths, file_applied>>
     ELSE FileStep(c, Top(c))
  /\ UNCHANGED <<method, fs, opt, kw, mp, pc, parents, ret, result, error, scanned, dir_applied,
                 dropped>>

\* Line 304 keeping every node (what C8 is sensitive to) and line 304 without
\* `include_empty or` (what C9 is sensitive to).
keep_every_dir_node(kw_, dir_node) == TRUE

keep_nonempty_dir_node(kw_, dir_node) == ~is_empty_dir_node(dir_node)

\* `include_empty or not is_empty_dir_node(dir_node)`
keep_dir_node(kw_, dir_node) == kw_.include_empty \/ ~is_empty_dir_node(dir_node)

\* Lines 304-305 with dir_apply called before the test of line 304: what C10
\* is sensitive to.
dir_step_apply_first(kw_, dir_node, dirs, log, dropped_) ==
  LET applied == call_dir_apply(kw_.dir_apply, dir_node)
      log_ == IF kw_.dir_apply # "identity" THEN Append(log, NodeKey(dir_node)) ELSE log
  IN IF kw_.include_empty \/ ~is_empty_dir_node(dir_node)
     THEN [dirs |-> Append(dirs, applied), log |-> log_, dropped |-> dropped_]
     ELSE [dirs |-> dirs, log |-> log_, dropped |-> Append(dropped_, dir_node)]

\* Lines 304-305: the node is handed to dir_apply and appended, or left out.
\* Yields the list dirs, the log of the caller's dir_apply invocations and
\* the nodes left out.
dir_step(kw_, dir_node, dirs, log, dropped_) ==
  IF keep_dir_node(kw_, dir_node)
  THEN [dirs |-> Append(dirs, call_dir_apply(kw_.dir_apply, dir_node)),
        log |-> IF kw_.dir_apply # "identity" THEN Append(log, NodeKey(dir_node)) ELSE log,
        dropped |-> dropped_]
  ELSE [dirs |-> dirs, log |-> log, dropped |-> Append(dropped_, dir_node)]

\* The recursive call of line 303 returned: lines 304-307.
RecReturn(c) ==
  /\ pc[c] = "recursive"
  /\ stack[c] # <<>>
  /\ Top(c).phase = "call"
  /\ ret[c] # None
  /\ LET r == dir_step(kw[c], ret[c], Top(c).dirs, dir_applied[c], dropped[c])
     IN /\ FileStep(c, [Top(c) EXCEPT !.dirs = r.dirs])
        /\ dir_applied' = [dir_applied EXCEPT ![c] = r.log]
        /\ dropped' = [dropped EXCEPT ![c] = r.dropped]
  /\ ret' = [ret EXCEPT ![c] = None]
  /\ UNCHANGED <<method, fs, opt, kw, mp, pc, parents, result, error, scanned>>

\* The end of the call with the entry left in parents, as a map of every
\* directory visited would be kept: what C23 is sensitive to.
unregister_nothing(kw_, path, parents_) == parents_

\* `if follow_links: del parents[path.real]`, the key being there.
unregister(kw_, path, parents_) ==
  IF kw_.follow_links
  THEN [k \in DOMAIN parents_ \ {path.real} |-> parents_[k]]
  ELSE parents_

\* End of _scantree_recursive, lines 309-312: `del parents[path.real]` raises
\* KeyError when the key is not there.
RecExit(c) ==
  /\ pc[c] = "recursive"
  /\ stack[c] # <<>>
  /\ Top(c).phase = "loop"
  /\ Top(c).pending = <<>>
  /\ LET path == Top(c).path
     IN IF kw[c].follow_links /\ path.real \notin DOMAIN parents[parents_dict(c)]
        THEN /\ pc' = [pc EXCEPT ![c] = "raised"]
             /\ error' = [error EXCEPT ![c] = KeyError(path.real)]
             /\ UNCHANGED <<stack, parents, ret>>
        ELSE /\ parents' = [parents EXCEPT ![parents_dict(c)] = unregister(kw[c], path, parents[parents_dict(c)])]
             /\ ret' = [ret EXCEPT ![c] = DirNode(path, Top(c).files, Top(c).dirs)]
             /\ stack' = [stack EXCEPT ![c] = Pop(stack[c])]
             /\ UNCHANGED <<pc, error>>
  /\ UNCHANGED <<method, fs, opt, kw, mp, cache, file_paths, result, scanned, dir_applied,
                 file_applied, dropped>>

\* scantree, lines 180-182: dir_apply on the root node and return; in
\* _scantree_multiprocess the value is root_dir_node (line 201).
ScantreeReturn(c) ==
  /\ pc[c] = "recursive"
  /\ stack[c] = <<>>
  /\ ret[c] # None
  /\ result' = [result EXCEPT ![c] = call_dir_apply(kw[c].dir_apply, ret[c])]
  /\ dir_applied' = [dir_applied EXCEPT ![c] =
                       IF kw[c].dir_apply # "identity"
                       THEN Append(dir_applied[c], NodeKey(ret[c])) ELSE dir_applied[c]]
  /\ ret' = [ret EXCEPT ![c] = None]
  /\ pc' = [pc EXCEPT ![c] = IF mp[c] THEN "pool_map" ELSE "done"]
  /\ UNCHANGED <<method, fs, opt, kw, mp, stack, parents, cache, file_paths, error, scanned,
                 file_applied, dropped>>

\* _scantree_multiprocess, lines 203-212: pool.map(file_apply, file_paths) and
\* root_dir_node.apply(dir_apply=dir_apply, file_apply=fetch_result).
PoolMapApply(c) ==
  /\ pc[c] = "pool_map"
  /\ LET file_results == [i \in 1..Len(file_paths[c]) |->
                            call_file_apply(opt[c].file_apply, file_paths[c][i])]
         applied == node_apply(result[c], opt[c].dir_apply, file_results)
     IN /\ file_applied' = [file_applied EXCEPT ![c] = file_applied[c] \o file_paths[c]]
        /\ result' = [result EXCEPT ![c] = applied.value]
        /\ dir_applied' = [dir_applied EXCEPT ![c] = dir_applied[c] \o applied.log]
  /\ pc' = [pc EXCEPT ![c] = "done"]
  /\ UNCHANGED <<method, fs, opt, kw, mp, stack, parents, ret, cache, file_paths, error, scanned,
                 dropped>>

\* The functions a caller hands to apply.
DirApplies == {"dir_apply", "d_tag"}

FileApplies == {"file_apply", "f_tag"}

\* The method calls made on the tree a scantree call returned.
MethodCall(name, dir_apply, file_apply, value) ==
  [type |-> "MethodCall", name |-> name, dir_apply |-> dir_apply, file_apply |-> file_apply,
   value |-> value]

\* A DirNode tree as a sequential scantree with the default transforms returns it.
MaterializedTree(c) ==
  /\ pc[c] = "done"
  /\ ~mp[c]
  /\ opt[c].dir_apply = "dir_apply" /\ opt[c].file_apply = "file_apply"
  /\ result[c].type = "DirNode"

\* tree.apply(dir_apply=d, file_apply=f) on the returned tree.
Apply(c) ==
  /\ MaterializedTree(c)
  /\ method[c] = None
  /\ \E d \in DirApplies, f \in FileApplies :
       method' = [method EXCEPT ![c] = MethodCall("apply", d, f, apply(result[c], d, f).value)]
  /\ UNCHANGED <<fs, opt, kw, mp, pc, stack, parents, ret, cache, file_paths, result, error,
                 scanned, dir_applied, file_applied, dropped>>

\* tree.leafpaths() on the returned tree.
Leafpaths(c) ==
  /\ MaterializedTree(c)
  /\ method[c] = None
  /\ method' = [method EXCEPT ![c] = MethodCall("leafpaths", "", "", leafpaths(result[c]))]
  /\ UNCHANGED <<fs, opt, kw, mp, pc, stack, parents, ret, cache, file_paths, result, error,
                 scanned, dir_applied, file_applied, dropped>>

\* tree.filepaths() on the returned tree.
Filepaths(c) ==
  /\ MaterializedTree(c)
  /\ method[c] = None
  /\ method' = [method EXCEPT ![c] = MethodCall("filepaths", "", "", filepaths(result[c]))]
  /\ UNCHANGED <<fs, opt, kw, mp, pc, stack, parents, ret, cache, file_paths, result, error,
                 scanned, dir_applied, file_applied, dropped>>

Next ==
  \E c \in Calls :
    \/ Scantree(c)
    \/ RecEnter(c)
    \/ LoopStep(c)
    \/ RecReturn(c)
    \/ RecExit(c)
    \/ ScantreeReturn(c)
    \/ PoolMapApply(c)
    \/ Apply(c)
    \/ Leafpaths(c)
    \/ Filepaths(c)

Spec == Init /\ [][Next]_vars

\* ------------------------------------------------------------ two calls
\* A program that makes two scantree calls on the same unchanged tree, one
\* after the other: the first with transforms d and f, the second with
\* jobs=1 where the first has jobs>1, and else with the default transforms
\* (its tree is then handed to apply).
PairArguments ==
  { [Defaults EXCEPT !.dir_apply = d, !.file_apply = f, !.include_empty = e, !.jobs = j] :
      d \in DirApplies, f \in FileApplies, e \in BOOLEAN, j \in {1, 2} }

SecondArguments(a) ==
  IF a.jobs > 1 THEN [a EXCEPT !.jobs = 1]
  ELSE [a EXCEPT !.dir_apply = "dir_apply", !.file_apply = "file_apply"]

InitPair ==
  /\ fs \in FileSystems
  /\ opt \in { [c \in Calls |-> IF c = 1 THEN a ELSE SecondArguments(a)] : a \in PairArguments }
  /\ kw = opt
  /\ mp = [c \in Calls |-> FALSE]
  /\ pc = [c \in Calls |-> "scantree"]
  /\ stack = [c \in Calls |-> <<>>]
  /\ parents = [c \in Calls |-> EmptyMap]
  /\ ret = [c \in Calls |-> None]
  /\ cache = [c \in Calls |-> EmptyMap]
  /\ file_paths = [c \in Calls |-> <<>>]
  /\ result = [c \in Calls |-> None]
  /\ error = [c \in Calls |-> None]
  /\ scanned = [c \in Calls |-> <<>>]
  /\ dir_applied = [c \in Calls |-> <<>>]
  /\ file_applied = [c \in Calls |-> <<>>]
  /\ dropped = [c \in Calls |-> <<>>]
  /\ method = [c \in Calls |-> None]

\* The second call is made when the first has returned or raised.
Turn(c) == c = 1 \/ pc[1] \in {"done", "raised"}

NextPair ==
  \E c \in Calls :
    \/ Turn(c) /\ Scantree(c)
    \/ Turn(c) /\ RecEnter(c)
    \/ Turn(c) /\ LoopStep(c)
    \/ Turn(c) /\ RecReturn(c)
    \/ Turn(c) /\ RecExit(c)
    \/ Turn(c) /\ ScantreeReturn(c)
    \/ Turn(c) /\ PoolMapApply(c)
    \/ Turn(c) /\ Apply(c)
    \/ Turn(c) /\ Leafpaths(c)
    \/ Turn(c) /\ Filepaths(c)

SpecPair == InitPair /\ [][NextPair]_vars

\* ------------------------------------------------------------ concurrent calls
\* Two sequential scantree invocations with the same arguments on the same
\* unchanged tree, made by two threads: their steps interleave in any order.
ConcurrentArguments ==
  { [Defaults EXCEPT !.cache_file_apply = b, !.allow_cyclic_links = a] :
      b \in BOOLEAN, a \in BOOLEAN }

InitConcurrent ==
  /\ fs \in FileSystems
  /\ opt \in { [c \in Calls |-> a] : a \in ConcurrentArguments }
  /\ kw = opt
  /\ mp = [c \in Calls |-> FALSE]
  /\ pc = [c \in Calls |-> "scantree"]
  /\ stack = [c \in Calls |-> <<>>]
  /\ parents = [c \in Calls |-> EmptyMap]
  /\ ret = [c \in Calls |-> None]
  /\ cache = [c \in Calls |-> EmptyMap]
  /\ file_paths = [c \in Calls |-> <<>>]
  /\ result = [c \in Calls |-> None]
  /\ error = [c \in Calls |-> None]
  /\ scanned = [c \in Calls |-> <<>>]
  /\ dir_applied = [c \in Calls |-> <<>>]
  /\ file_applied = [c \in Calls |-> <<>>]
  /\ dropped = [c \in Calls |-> <<>>]
  /\ method = [c \in Calls |-> None]

NextConcurrent ==
  \E c \in Calls :
    \/ Scantree(c)
    \/ RecEnter(c)
    \/ LoopStep(c)
    \/ RecReturn(c)
    \/ RecExit(c)
    \/ ScantreeReturn(c)

SpecConcurrent == InitConcurrent /\ [][NextConcurrent]_vars

\* ------------------------------------------------------------ cyclic links
\* Two calls on the same unchanged tree with follow_links=True and the same
\* filter and include_empty, the first with allow_cyclic_links=False and the
\* second, made when the first has ended, with allow_cyclic_links=True.
CyclicArguments ==
  { [Defaults EXCEPT !.directory = d, !.recursion_filter = f, !.include_empty = e] :
      d \in {Dir_r, Link_lr}, f \in Filters, e \in BOOLEAN }

InitCyclic ==
  /\ fs \in FileSystems
  /\ opt \in { [c \in Calls |-> [a EXCEPT !.allow_cyclic_links = (c = 2)]] :
               a \in CyclicArguments }
  /\ kw = opt
  /\ mp = [c \in Calls |-> FALSE]
  /\ pc = [c \in Calls |-> "scantree"]
  /\ stack = [c \in Calls |-> <<>>]
  /\ parents = [c \in Calls |-> EmptyMap]
  /\ ret = [c \in Calls |-> None]
  /\ cache = [c \in Calls |-> EmptyMap]
  /\ file_paths = [c \in Calls |-> <<>>]
  /\ result = [c \in Calls |-> None]
  /\ error = [c \in Calls |-> None]
  /\ scanned = [c \in Calls |-> <<>>]
  /\ dir_applied = [c \in Calls |-> <<>>]
  /\ file_applied = [c \in Calls |-> <<>>]
  /\ dropped = [c \in Calls |-> <<>>]
  /\ method = [c \in Calls |-> None]

NextCyclic ==
  \E c \in Calls :
    \/ Turn(c) /\ Scantree(c)
    \/ Turn(c) /\ RecEnter(c)
    \/ Turn(c) /\ LoopStep(c)
    \/ Turn(c) /\ RecReturn(c)
    \/ Turn(c) /\ RecExit(c)
    \/ Turn(c) /\ ScantreeReturn(c)

SpecCyclic == InitCyclic /\ [][NextCyclic]_vars

\* ------------------------------------------------------------ claims
Started(c) == pc[c] # "idle"

\* The root of call c exists and is a directory.
ValidRoot(c) == os_path_isdir(fs, opt[c].directory)

\* The nodes of a tree built with the default transforms, the root included.
RECURSIVE Nodes(_)
Nodes(node) ==
  IF node.type = "DirNode"
  THEN {node} \cup UNION { Nodes(node.directories[i]) : i \in 1..Len(node.directories) }
  ELSE {node}

\* The directories open on the recursion branch above the innermost call.
OpenAbove(c) == { stack[c][i].path : i \in 1..(Len(stack[c]) - 1) }

\* The directories open on the branch of the call that has just returned.
OpenAtReturn(c) == { stack[c][i].path : i \in 1..Len(stack[c]) }

\* A recursive call has just returned its node to the loop of its parent.
Returned(c) == pc[c] = "recursive" /\ ret[c] # None

Link_B_toA == Entry(Dir_B, <<"t", "o", "A">>, "link", Dir_A)
Link_C_toB == Entry(Dir_C, <<"t", "o", "B">>, "link", Dir_B)
Link_D_toB == Entry(Dir_D, <<"t", "o", "B">>, "link", Dir_B)
Link_D_toX == Entry(Dir_D, <<"t", "o", "X">>, "link", Dir_X)
Link_X_toD == Entry(Dir_X, <<"t", "o", "D">>, "link", Dir_D)
Link_B_tor == Entry(Dir_B, <<"t", "o", "r">>, "link", Dir_r)
File_r_f == Entry(Dir_r, <<"f">>, "file", <<>>)
File_B_f == Entry(Dir_B, <<"f">>, "file", <<>>)
Link_D_lf == Entry(Dir_D, <<"l", "f">>, "link", Dir_B \o <<"/", "f">>)

\* C1: with follow_links=True and allow_cyclic_links=True a traversal of a
\* valid root never raises and its recursion stays below the cap, whatever
\* links the tree holds.
C1_NeverRaises ==
  \A c \in Calls :
    (Started(c) /\ ValidRoot(c) /\ opt[c].follow_links /\ opt[c].allow_cyclic_links)
      => (pc[c] # "raised" /\ Len(stack[c]) < MaxDepth)

\* C2: with follow_links=True and allow_cyclic_links=True the node returned
\* for an entry is a CyclicLinkedDir exactly when the entry is a symlink whose
\* real path is the real path of a directory open on the branch; and for the
\* tree with A/B/toA -> A and D/toB -> A/B the traversal returns a tree in
\* which D/toB and D/toB/toA/B are DirNodes and A/B/toA and D/toB/toA/B/toA
\* are CyclicLinkedDir nodes.
C2_CyclicExactlyAtClosingLink ==
  \A c \in Calls :
    (Started(c) /\ opt[c].follow_links /\ opt[c].allow_cyclic_links) =>
      /\ (Returned(c) /\ stack[c] # <<>>) =>
           ((ret[c].type = "CyclicLinkedDir") <=>
              (is_symlink(ret[c].path) /\
               \E p \in OpenAtReturn(c) : p.real = ret[c].path.real))
      /\ (opt[c].directory = Dir_r /\ {Link_B_toA, Link_D_toB} \subseteq fs
            /\ opt[c].recursion_filter = IdentityFilter) =>
           /\ pc[c] # "raised"
           /\ (pc[c] = "done" /\ opt[c].jobs = 1) =>
                \A n \in Nodes(result[c]) :
                  /\ n.path.relative \in { <<"D", "/", "t", "o", "B">>,
                                           <<"D", "/", "t", "o", "B", "/", "t", "o", "A", "/", "B">> }
                       => n.type = "DirNode"
                  /\ n.path.relative \in { <<"A", "/", "B", "/", "t", "o", "A">>,
                                           <<"D", "/", "t", "o", "B", "/", "t", "o", "A", "/", "B",
                                             "/", "t", "o", "A">> }
                       => n.type = "CyclicLinkedDir"

\* C3: the target_path of every CyclicLinkedDir that is produced is the path
\* of a directory open on the branch above the link, with the link's real path.
C3_TargetIsOpenAncestor ==
  \A c \in Calls :
    (Returned(c) /\ ret[c].type = "CyclicLinkedDir") =>
      /\ ret[c].target_path \in OpenAtReturn(c)
      /\ ret[c].target_path.real = ret[c].path.real

\* C4: with follow_links=True and allow_cyclic_links=False no CyclicLinkedDir
\* is produced, and a SymlinkRecursionError ends the call without a result,
\* is raised at a link whose real path is that of a directory open above it,
\* and carries the link's real path, that directory's absolute path as
\* first_path and the link's absolute path as second_path, all in its message.
C4_SymlinkRecursionError ==
  \A c \in Calls :
    (Started(c) /\ opt[c].follow_links /\ ~opt[c].allow_cyclic_links) =>
      /\ ~(Returned(c) /\ ret[c].type = "CyclicLinkedDir")
      /\ error[c].type = "SymlinkRecursionError" =>
           /\ pc[c] = "raised"
           /\ result[c] = None
           /\ is_symlink(Top(c).path)
           /\ error[c].real_path = Top(c).path.real
           /\ error[c].second_path = absolute(Top(c).path)
           /\ \E p \in OpenAbove(c) :
                p.real = Top(c).path.real /\ error[c].first_path = absolute(p)
           /\ error[c].message = <<error[c].real_path, error[c].first_path,
                                   error[c].second_path>>

\* C5: with the default dir_apply, a call that returns returns a DirNode whose
\* path has relative '', also for a root that is a symlink to a directory.
C5_RootIsDirNode ==
  \A c \in Calls :
    pc[c] = "done" => (result[c].type = "DirNode" /\ result[c].path.relative = <<>>)

\* The entries of the directory at `path` that pass the filter of call c.
Listed(c, path) ==
  { q \in RecursionPath_scandir(fs, path) :
      recursion_filter(kw[c].recursion_filter, <<q>>) # <<>> }

Range(s) == { s[i] : i \in 1..Len(s) }

ChildPaths(node) == { node.directories[i].path : i \in 1..Len(node.directories) }

\* The tree a sequential scantree returned: the result of a call with jobs=1,
\* or root_dir_node of _scantree_multiprocess before pool.map.
SequentialResult(c) == (pc[c] = "done" /\ ~mp[c]) \/ pc[c] = "pool_map"

\* C6: with follow_links=False the node returned for a symlink is a LinkedDir
\* leaf and scandir() is never called on a symlink; with follow_links=True the
\* node returned for a listed symlink with no open directory of its real path
\* on the branch is a DirNode whose path is the link's, whose entries are named
\* as the entries of the link's target and lie under the link's relative path,
\* whose files are the listed files and whose directories are the listed
\* directories (but for those left out as empty).
C6_LinkedDirOrExpanded ==
  \A c \in Calls :
    /\ (Started(c) /\ ~kw[c].follow_links) =>
         /\ \A i \in 1..Len(scanned[c]) : ~is_symlink(scanned[c][i])
         /\ (Returned(c) /\ is_symlink(ret[c].path)) => ret[c] = LinkedDir(ret[c].path)
    /\ (Returned(c) /\ stack[c] # <<>> /\ kw[c].follow_links /\ is_symlink(ret[c].path)
          /\ \A p \in OpenAtReturn(c) : p.real # ret[c].path.real) =>
         /\ ret[c].type = "DirNode"
         /\ { q.dir_entry.name : q \in RecursionPath_scandir(fs, ret[c].path) }
              = { e.name : e \in { x \in fs : x.parent = ret[c].path.real } }
         /\ \A q \in RecursionPath_scandir(fs, ret[c].path) :
              q.relative = ret[c].path.relative \o <<"/">> \o q.dir_entry.name
         /\ ChildPaths(ret[c]) \subseteq { q \in Listed(c, ret[c].path) : is_dir(q) }
         /\ \A q \in Listed(c, ret[c].path) :
              is_dir(q) =>
                \/ q \in ChildPaths(ret[c])
                \/ /\ ~kw[c].include_empty
                   /\ \E j \in 1..Len(dropped[c]) :
                        dropped[c][j].path = q /\ is_empty_dir_node(dropped[c][j])
         /\ (~mp[c] /\ ~kw[c].cache_file_apply) =>
              Range(ret[c].files) = { q \in Listed(c, ret[c].path) : is_file(q) }

\* C6 happens: D/toB -> A/B is followed and returned as a DirNode holding the
\* file f of A/B as D/toB/f.
C6_Witness ==
  \E c \in Calls :
    /\ Returned(c) /\ kw[c].follow_links /\ ~mp[c] /\ ~kw[c].cache_file_apply
    /\ is_symlink(ret[c].path)
    /\ ret[c].type = "DirNode"
    /\ ret[c].path.relative = <<"D", "/", "t", "o", "B">>
    /\ Len(ret[c].files) = 1
    /\ ret[c].files[1].relative = <<"D", "/", "t", "o", "B", "/", "f">>
    /\ ret[c].files[1].real = Dir_B \o <<"/", "f">>

\* C7: a call on a root that does not exist or is not a directory raises the
\* ValueError of _verify_is_directory, for jobs=1 and jobs>1, and no directory
\* is enumerated, nothing is filtered and no file_apply or dir_apply is called.
C7_InvalidRootFailsFirst ==
  \A c \in Calls :
    (Started(c) /\ ~ValidRoot(c)) =>
      /\ pc[c] \in {"scantree", "raised"}
      /\ pc[c] = "raised" =>
           /\ error[c].type = "ValueError"
           /\ error[c].message[1] = opt[c].directory
           /\ error[c].message[2] =
                (IF os_path_exists(fs, opt[c].directory)
                 THEN "Is not a directory" ELSE "No such directory")
      /\ result[c] = None
      /\ ~mp[c]
      /\ stack[c] = <<>> /\ parents[c] = EmptyMap
      /\ scanned[c] = <<>> /\ dir_applied[c] = <<>> /\ file_applied[c] = <<>>
      /\ file_paths[c] = <<>>

\* C7 happens: a call with jobs=2 on the file /g has raised.
C7_Witness ==
  \E c \in Calls :
    /\ opt[c].jobs = 2 /\ opt[c].directory = File_g
    /\ pc[c] = "raised" /\ error[c].type = "ValueError"

\* C8: with include_empty=False no child in the tree a sequential scantree
\* returns is a DirNode with empty files and empty directories, whatever made
\* it empty, and every node left out of its parent is such an empty DirNode
\* (never a LinkedDir or a CyclicLinkedDir).
C8_NoEmptyChild ==
  \A c \in Calls :
    (Started(c) /\ ~kw[c].include_empty) =>
      /\ \A j \in 1..Len(dropped[c]) : is_empty_dir_node(dropped[c][j])
      /\ SequentialResult(c) =>
           \A n \in Nodes(result[c]) :
             n.type = "DirNode" =>
               \A i \in 1..Len(n.directories) : ~is_empty_dir_node(n.directories[i])

\* C8 happens: A was left out after B and C were, although /r/A holds
\* entries, while D is kept for the LinkedDir it holds.
C8_Witness ==
  \E c \in Calls :
    /\ pc[c] = "done" /\ ~mp[c] /\ ~kw[c].include_empty /\ ~kw[c].follow_links
    /\ \E j \in 1..Len(dropped[c]) : dropped[c][j].path.relative = <<"A">>
    /\ \E j \in 1..Len(dropped[c]) : dropped[c][j].path.relative = <<"A", "/", "B">>
    /\ \E n \in Nodes(result[c]) : n.type = "LinkedDir"
    /\ Len(result[c].directories) = 1

\* C9: with include_empty=True no node is left out: every directory whose
\* scandir() was called is a DirNode of the tree a sequential scantree returns,
\* and the directories of each DirNode are exactly the listed directories.
C9_NothingDropped ==
  \A c \in Calls :
    (Started(c) /\ kw[c].include_empty) =>
      /\ dropped[c] = <<>>
      /\ (SequentialResult(c) /\ method[c] = None) =>
           LET nodes == Nodes(result[c])
           IN /\ \A i \in 1..Len(scanned[c]) :
                   \E n \in nodes : n.type = "DirNode" /\ n.path = scanned[c][i]
              /\ \A n \in nodes :
                   n.type = "DirNode" =>
                     /\ ChildPaths(n) = { q \in Listed(c, n.path) : is_dir(q) }
                     /\ Len(n.directories) = Cardinality(ChildPaths(n))

\* C9 happens: a returned tree holds an empty DirNode below the root.
C9_Witness ==
  \E c \in Calls :
    /\ pc[c] = "done" /\ ~mp[c] /\ kw[c].include_empty
    /\ \E n \in Nodes(result[c]) :
         /\ n.path.relative = <<"A">>
         /\ Len(n.directories) = 2
         /\ \A i \in 1..2 : is_empty_dir_node(n.directories[i])

\* C10: in a call with jobs=1 dir_apply is never called with a node that was
\* left out as empty, and when the call returns dir_apply has been called
\* exactly once with each node of the result, the root included, and with
\* nothing else.
C10_DirApplyOncePerNode ==
  \A c \in Calls :
    (Started(c) /\ opt[c].jobs = 1) =>
      /\ \A i \in 1..Len(dir_applied[c]) : \A j \in 1..Len(dropped[c]) :
           dir_applied[c][i] # NodeKey(dropped[c][j])
      /\ pc[c] = "done" =>
           /\ Range(dir_applied[c]) = { NodeKey(n) : n \in Nodes(result[c]) }
           /\ Len(dir_applied[c]) = Cardinality(Nodes(result[c]))
           /\ Cardinality(Range(dir_applied[c])) = Len(dir_applied[c])
           /\ dir_applied[c][Len(dir_applied[c])] = NodeKey(result[c])

\* C10 happens: a call with jobs=1 left out an empty directory and returned a
\* tree that holds a CyclicLinkedDir.
C10_Witness ==
  \E c \in Calls :
    /\ pc[c] = "done" /\ opt[c].jobs = 1
    /\ dropped[c] # <<>>
    /\ \E n \in Nodes(result[c]) : n.type = "CyclicLinkedDir"
    /\ Len(dir_applied[c]) > 2

\* Call c made the method call `name` on the tree it returned.
Called(c, name) == method[c].type = "MethodCall" /\ method[c].name = name

\* C11: tree.apply(identity, identity) on a materialized tree returns a tree
\* equal to the original: same path, same files and same directories, in the
\* same order, at every level.
C11_ApplyIdentityIsDeepEqual ==
  \A c \in Calls :
    (Called(c, "apply") /\ method[c].dir_apply = "dir_apply"
       /\ method[c].file_apply = "file_apply") =>
      method[c].value = result[c]

\* The result of apply as the docstrings of DirNode describe it: files hold
\* file_apply of the files and directories hold the results for the
\* subdirectories.
RECURSIVE apply_as_documented(_, _, _)
apply_as_documented(self, dir_apply, file_apply) ==
  IF self.type # "DirNode" THEN call_dir_apply(dir_apply, self)
  ELSE call_dir_apply(dir_apply,
         [type |-> "DirNode", path |-> self.path,
          files |-> [i \in 1..Len(self.files) |-> call_file_apply(file_apply, self.files[i])],
          directories |-> [i \in 1..Len(self.directories) |->
                             apply_as_documented(self.directories[i], dir_apply, file_apply)]])

\* C12: tree.apply(d, f) returns d of a DirNode with the same path, whose files
\* are f of each file in order and whose directories are the results of apply
\* on each subdirectory in order, a LinkedDir or CyclicLinkedDir child giving
\* d(child).
C12_ApplyMapsFilesAndDirectories ==
  \A c \in Calls :
    Called(c, "apply") =>
      method[c].value = apply_as_documented(result[c], method[c].dir_apply, method[c].file_apply)

\* C13: scantree(root, dir_apply=d, file_apply=f) returns what
\* scantree(root).apply(dir_apply=d, file_apply=f) returns, on the same tree
\* with the same options.
C13_TransformsEqualApply ==
  (pc[1] = "done" /\ opt[1].jobs = 1
     /\ opt[2] = [opt[1] EXCEPT !.dir_apply = "dir_apply", !.file_apply = "file_apply"]
     /\ Called(2, "apply")
     /\ method[2].dir_apply = opt[1].dir_apply /\ method[2].file_apply = opt[1].file_apply) =>
    method[2].value = result[1]

\* C14: a call with jobs>1 and a call with jobs=1 on the same tree, with the
\* same options and transforms, return equal results.
C14_JobsGiveSameResult ==
  (opt[1].jobs > 1 /\ opt[2] = [opt[1] EXCEPT !.jobs = 1]
     /\ pc[1] = "done" /\ pc[2] = "done") =>
    result[1] = result[2]

\* The number of entries in the files of the DirNodes of a tree.
RECURSIVE FileCount(_)
FileCount(node) ==
  IF node.type # "DirNode" THEN 0
  ELSE LET RECURSIVE Below(_)
           Below(i) == IF i > Len(node.directories) THEN 0
                       ELSE FileCount(node.directories[i]) + Below(i + 1)
       IN Len(node.files) + Below(1)

\* The files of the DirNodes of a tree.
TreeFiles(tree) == UNION { Range(n.files) : n \in { x \in Nodes(tree) : x.type = "DirNode" } }

\* The LinkedDir, CyclicLinkedDir and empty DirNode nodes of a tree.
LeafNodes(tree) ==
  { n \in Nodes(tree) : n.type \in {"LinkedDir", "CyclicLinkedDir"} \/ is_empty_dir_node(n) }

\* The sequence is in ascending order of relative path.
AscendingByRelative(s) ==
  \A i \in 1..Len(s) : \A j \in 1..Len(s) : i < j => ~StrLess(s[j].relative, s[i].relative)

\* C15: leafpaths() of a tree holds the path of each file of the tree, of each
\* LinkedDir and CyclicLinkedDir node and of each empty DirNode (the receiver
\* included), once for each, holds no path of a non-empty DirNode, and is in
\* ascending order of relative path.
C15_Leafpaths ==
  \A c \in Calls :
    Called(c, "leafpaths") =>
      /\ Range(method[c].value) =
           TreeFiles(result[c]) \cup { n.path : n \in LeafNodes(result[c]) }
      /\ Len(method[c].value) = FileCount(result[c]) + Cardinality(LeafNodes(result[c]))
      /\ \A n \in Nodes(result[c]) \ LeafNodes(result[c]) : n.path \notin Range(method[c].value)
      /\ AscendingByRelative(method[c].value)

\* C15 happens: leafpaths() of a tree with a file, a CyclicLinkedDir and empty
\* DirNodes, where the file is met after the link.
C15_Witness ==
  \E c \in Calls :
    /\ Called(c, "leafpaths")
    /\ Len(method[c].value) = 4
    /\ method[c].value[1].relative = <<"A", "/", "B", "/", "f">>
    /\ method[c].value[2].relative = <<"A", "/", "B", "/", "t", "o", "A">>
    /\ method[c].value[3].relative = <<"A", "/", "C">>
    /\ method[c].value[4].relative = <<"D">>

\* p is the directory `directory` or lies below it.
Under(p, directory) ==
  p = directory \/ (Len(p) > Len(directory) /\ SubSeq(p, 1, Len(directory) + 1) = directory \o <<"/">>)

\* The relative paths of the regular files below `directory`.
RegularFiles(directory) ==
  { SubSeq(os_path_join(e.parent, e.name), Len(directory) + 2,
           Len(os_path_join(e.parent, e.name))) :
      e \in { x \in fs : x.kind = "file" /\ Under(x.parent, directory) } }

NoSymlinks(directory) == { x \in fs : x.kind = "link" /\ Under(x.parent, directory) } = {}

\* The strings of a set in ascending order.
RECURSIVE SortedStrings(_)
SortedStrings(S) ==
  IF S = {} THEN <<>>
  ELSE LET least == CHOOSE x \in S : \A y \in S \ {x} : StrLess(x, y)
       IN <<least>> \o SortedStrings(S \ {least})

Relatives(paths) == [i \in 1..Len(paths) |-> paths[i].relative]

\* A call with the defaults of the signature on a tree without symlinks.
DefaultsNoSymlinks(c) == opt[c] = Defaults /\ NoSymlinks(opt[c].directory)

DirectoryPaths(node) == [i \in 1..Len(node.directories) |-> node.directories[i].path]

\* C17: the directories of every DirNode a traversal builds are in ascending
\* order of relative path and, when file_apply is the identity, so are its
\* files, which are the listed files of the directory whatever order the OS
\* gave them in; leafpaths() of the tree with f and A/B/f is A/B/f, f.
C17_SortedEntries ==
  \A c \in Calls :
    /\ (Returned(c) /\ ret[c].type = "DirNode") =>
         /\ Relatives(DirectoryPaths(ret[c])) =
              SortedStrings(Range(Relatives(DirectoryPaths(ret[c]))))
         /\ kw[c].include_empty =>
              Relatives(DirectoryPaths(ret[c])) =
                SortedStrings({ q.relative : q \in { x \in Listed(c, ret[c].path) :
                                                       x.dir_entry.is_dir } })
         /\ (~mp[c] /\ ~kw[c].cache_file_apply) =>
              Relatives(ret[c].files) =
                SortedStrings({ q.relative : q \in { x \in Listed(c, ret[c].path) :
                                                       x.dir_entry.is_file } })
    /\ (Called(c, "leafpaths") /\ opt[c].recursion_filter = IdentityFilter
          /\ fs = Skeleton \cup {File_r_f, File_B_f}) =>
         Relatives(method[c].value) \in
           { << <<"A", "/", "B", "/", "f">>, <<"f">> >>,
             << <<"A", "/", "B", "/", "f">>, <<"A", "/", "C">>, <<"D">>, <<"f">> >> }

\* C17 happens: the root, whose three entries the OS lists in any order, has
\* returned with two directories and a file.
C17_Witness ==
  \E c \in Calls :
    /\ Returned(c) /\ ret[c].type = "DirNode" /\ ~mp[c]
    /\ ret[c].path.relative = <<>>
    /\ Relatives(DirectoryPaths(ret[c])) = << <<"A">>, <<"D">> >>
    /\ Relatives(ret[c].files) = << <<"f">> >>

\* The files a traversal includes: the listed files of every directory whose
\* scandir() was called.
IncludedFiles(c) ==
  UNION { { q \in Listed(c, scanned[c][i]) : q.dir_entry.is_file } : i \in 1..Len(scanned[c]) }

\* C18: when a call returns, with cache_file_apply=True the caller's
\* file_apply has been called exactly once for each distinct real path among
\* the included files, and with cache_file_apply=False exactly once for each
\* included file path, for jobs=1 and jobs>1.
C18_FileApplyCalls ==
  \A c \in Calls :
    (pc[c] = "done" /\ method[c] = None) =>
      LET included == IncludedFiles(c)
          reals == { q.real : q \in included }
      IN IF opt[c].cache_file_apply
         THEN /\ { file_applied[c][i].real : i \in 1..Len(file_applied[c]) } = reals
              /\ Len(file_applied[c]) = Cardinality(reals)
              /\ Range(file_applied[c]) \subseteq included
         ELSE /\ Range(file_applied[c]) = included
              /\ Len(file_applied[c]) = Cardinality(included)

\* C18 happens: a call with jobs=2 and the cache returned after calling
\* file_apply once for the file A/B/f and the link D/lf to it.
C18_Witness ==
  \E c \in Calls :
    /\ pc[c] = "done" /\ opt[c].cache_file_apply /\ opt[c].jobs = 2
    /\ Cardinality(IncludedFiles(c)) = 2
    /\ Len(file_applied[c]) = 1
    /\ file_applied[c][1].real = Dir_B \o <<"/", "f">>

\* The rule of C19 for a path that is a directory or a file.
KeptByRule(flt, q) ==
  IF q.dir_entry.is_dir THEN ~(q.dir_entry.is_symlink /\ ~flt.linked_dirs)
  ELSE match_file(flt, q.relative) /\ ~(q.dir_entry.is_symlink /\ ~flt.linked_files)

DirOrFile(q) == q.dir_entry.is_dir \/ q.dir_entry.is_file

\* s is what is left of the sequence full after some of its first elements.
IsSuffix(s, full) ==
  Len(s) <= Len(full) /\ s = SubSeq(full, Len(full) - Len(s) + 1, Len(full))

\* The directory on top of the stack of call c is the one listed last: it has
\* been listed and none of its subdirectories has been listed yet.
JustListed(c) ==
  /\ stack[c] # <<>> /\ Top(c).phase = "loop"
  /\ scanned[c] # <<>> /\ scanned[c][Len(scanned[c])] = Top(c).path

\* C19: the RecursionFilter of a scan applied to the listing of a directory,
\* in whatever order, yields in that order the directories that are not
\* symlinks excluded by linked_dirs=False and the files that match the patterns
\* and are not symlinks excluded by linked_files=False; the entries still to be
\* visited in the directory listed last are the end of that sequence, sorted.
C19_RecursionFilter ==
  \A c \in Calls :
    (JustListed(c) /\ kw[c].recursion_filter.kind = "RecursionFilter") =>
      LET flt == kw[c].recursion_filter
          pending == SelectSeq(Top(c).pending, DirOrFile)
          entries == RecursionPath_scandir(fs, Top(c).path)
      IN IF Top(c).dirs = <<>> /\ Top(c).files = <<>>
         THEN \A listing \in Enumerations(entries) :
                /\ SelectSeq(recursion_filter(flt, listing), DirOrFile) =
                     SelectSeq(listing, LAMBDA q : DirOrFile(q) /\ KeptByRule(flt, q))
                /\ IsSuffix(pending,
                            SelectSeq(sorted(listing),
                                      LAMBDA q : DirOrFile(q) /\ KeptByRule(flt, q)))
         ELSE IsSuffix(pending,
                       SelectSeq(SortedOf(entries),
                                 LAMBDA q : DirOrFile(q) /\ KeptByRule(flt, q)))

\* C19 happens: with linked_dirs=False the directory A/B, which holds the link
\* toA and the file f, has been listed and only f is to be visited.
C19_Witness ==
  \E c \in Calls :
    /\ stack[c] # <<>> /\ Top(c).phase = "loop"
    /\ kw[c].recursion_filter = RecursionFilter(FALSE, TRUE, Star)
    /\ Top(c).path.relative = <<"A", "/", "B">>
    /\ Cardinality(RecursionPath_scandir(fs, Top(c).path)) = 2
    /\ Relatives(Top(c).pending) = << <<"A", "/", "B", "/", "f">> >>

\* The entries of the directory at `path` that are symlinks to files.
LinkedFiles(path) ==
  { q \in RecursionPath_scandir(fs, path) : q.dir_entry.is_symlink /\ q.dir_entry.is_file }

\* C20: in every directory node returned, with follow_links True or False, a
\* symlink to a file is among the files of the node when it passes the filter,
\* and is left out when the filter has linked_files=False (or its match
\* patterns reject it).
C20_LinkedFileIsAFile ==
  \A c \in Calls :
    (Returned(c) /\ ret[c].type = "DirNode" /\ ~mp[c] /\ ~kw[c].cache_file_apply) =>
      \A q \in LinkedFiles(ret[c].path) :
        /\ kw[c].recursion_filter.kind # "RecursionFilter" => q \in Range(ret[c].files)
        /\ kw[c].recursion_filter.kind = "RecursionFilter" =>
             /\ (kw[c].recursion_filter.linked_files
                   /\ match_file(kw[c].recursion_filter, q.relative))
                  => q \in Range(ret[c].files)
             /\ ~kw[c].recursion_filter.linked_files => q \notin Range(ret[c].files)

\* C20 happens: with follow_links=False the directory D is returned with the
\* link D/lf -> A/B/f as its only file.
C20_Witness ==
  \E c \in Calls :
    /\ Returned(c) /\ ret[c].type = "DirNode" /\ ~mp[c] /\ ~kw[c].cache_file_apply
    /\ ~kw[c].follow_links
    /\ ret[c].path.relative = <<"D">>
    /\ Len(ret[c].files) = 1
    /\ ret[c].files[1] \in LinkedFiles(ret[c].path)
    /\ ret[c].files[1].relative = <<"D", "/", "l", "f">>
    /\ ret[c].files[1].real = Dir_B \o <<"/", "f">>

\* C21: on every node of a tree a sequential scantree returns, reading files,
\* directories or entries of a LinkedDir or of a CyclicLinkedDir, or empty of a
\* LinkedDir, is an AttributeError; empty of a CyclicLinkedDir is False; empty
\* of a DirNode is true exactly when it has no files and no directories, and
\* its entries are its files followed by its directories.
C21_NodeAttributes ==
  \A c \in Calls :
    (pc[c] = "done" /\ ~mp[c] /\ method[c] = None) =>
      \A n \in Nodes(result[c]) :
        /\ n.type = "LinkedDir" =>
             \A a \in NodeAttributes : node_getattr(n, a).type = "AttributeError"
        /\ n.type = "CyclicLinkedDir" =>
             /\ \A a \in NodeAttributes \ {"empty"} : node_getattr(n, a).type = "AttributeError"
             /\ node_getattr(n, "empty") = Returns(FALSE)
        /\ n.type = "DirNode" =>
             /\ node_getattr(n, "empty") = Returns(Len(n.files) = 0 /\ Len(n.directories) = 0)
             /\ node_getattr(n, "entries") =
                  Returns([i \in 1..(Len(n.files) + Len(n.directories)) |->
                             IF i <= Len(n.files) THEN n.files[i]
                             ELSE n.directories[i - Len(n.files)]])

\* C21 happens: a returned tree whose root has a file and a directory, and
\* which holds a LinkedDir.
C21_Witness ==
  \E c \in Calls :
    /\ pc[c] = "done" /\ ~mp[c] /\ method[c] = None
    /\ result[c].type = "DirNode"
    /\ result[c].files # <<>> /\ result[c].directories # <<>>
    /\ \E n \in Nodes(result[c]) : n.type = "LinkedDir"

\* The file system as it is, and after one of its optional files was removed.
LaterFileSystems == {fs} \cup { fs \ {e} : e \in { x \in fs \ Skeleton : x.kind = "file" } }

\* The paths generated for the directory listed last, now and later.
ListedNow(c) == RecursionPath_scandir(fs, Top(c).path)
ListedLater(c) == UNION { RecursionPath_scandir(F, Top(c).path) : F \in LaterFileSystems }

\* C22 as stated: two paths generated for the entries of a directory, at the
\* same time or after a file of the tree was removed, compare equal exactly
\* when root, relative and real agree and the properties of their directory
\* entries agree too.
C22_EqualIffMetadataAgrees ==
  \A c \in Calls :
    JustListed(c) =>
      \A p \in ListedNow(c) : \A q \in ListedLater(c) :
        RecursionPath_eq(p, q) <=>
          (p.root = q.root /\ p.relative = q.relative /\ p.real = q.real
             /\ p.dir_entry = q.dir_entry)

\* C22 amended: when a directory has been listed and none of its entries is
\* processed yet, two such paths compare equal exactly when root, relative and
\* real agree, whatever the properties of their directory entries, which is
\* exactly when neither sorts before the other.
C22_EqualIffRootRelativeReal ==
  \A c \in Calls :
    (JustListed(c) /\ Top(c).dirs = <<>> /\ Top(c).files = <<>>) =>
      LET now == ListedNow(c)
          later == ListedLater(c)
      IN \A p \in now : \A q \in later :
           /\ RecursionPath_eq(p, q) <=>
                (p.root = q.root /\ p.relative = q.relative /\ p.real = q.real)
           /\ RecursionPath_eq(p, q) <=> (~PathLess(p, q) /\ ~PathLess(q, p))
           /\ (p.relative = q.relative /\ p.real = q.real /\ p.dir_entry # q.dir_entry)
                => RecursionPath_eq(p, q)

\* C22 happens: D/lf -> A/B/f is a file while A/B/f exists and is not once it
\* was removed, and the two paths generated for D/lf are equal.
C22_Witness ==
  \E c \in Calls :
    /\ JustListed(c) /\ Top(c).dirs = <<>> /\ Top(c).files = <<>>
    /\ Top(c).path.relative = <<"D">>
    /\ \E p \in ListedNow(c) : \E q \in ListedLater(c) :
         /\ p.relative = <<"D", "/", "l", "f">>
         /\ RecursionPath_eq(p, q)
         /\ p.dir_entry.is_file /\ ~q.dir_entry.is_file

\* C23: with follow_links=True, when the call for a directory returns and a
\* directory of the same real path was listed earlier under another path and
\* no directory of that real path is open on the branch, the node returned is
\* a DirNode whose directory was listed, not a CyclicLinkedDir.
C23_SiblingBranchesExpanded ==
  \A c \in Calls :
    (/\ Returned(c) /\ kw[c].follow_links
     /\ \E i \in 1..Len(scanned[c]) :
          scanned[c][i].real = ret[c].path.real /\ scanned[c][i] # ret[c].path
     /\ \A o \in OpenAtReturn(c) : o.real # ret[c].path.real) =>
      /\ ret[c].type = "DirNode"
      /\ \E i \in 1..Len(scanned[c]) : scanned[c][i] = ret[c].path

\* C23 happens: A/B was listed under A, and the link D/toB -> A/B in the
\* sibling directory D has returned a DirNode.
C23_Witness ==
  \E c \in Calls :
    /\ Returned(c) /\ kw[c].follow_links
    /\ ret[c].type = "DirNode"
    /\ ret[c].path.relative = <<"D", "/", "t", "o", "B">>
    /\ \E i \in 1..Len(scanned[c]) : scanned[c][i].relative = <<"A", "/", "B">>
    /\ \A o \in OpenAtReturn(c) : o.real # Dir_B

\* The ancestor map scantree passes to the first recursive call.
SeededParents(c) ==
  LET path == from_root(fs, opt[c].directory) IN [k \in {path.real} |-> path]

\* C24: the recursive step leaves the ancestor map as it found it on every
\* exit: when a step has returned, the entries of the directories still open
\* above it are in the map, and when the outermost step has ended, by a return
\* or by an error raised below it, the map holds no key but the one it was
\* entered with.
C24_ParentsRestored ==
  \A c \in Calls :
    (Started(c) /\ ValidRoot(c) /\ kw[c].follow_links) =>
      /\ Returned(c) =>
           \A o \in OpenAtReturn(c) : o.real \in DOMAIN parents[c]
      /\ pc[c] \in {"done", "pool_map", "raised"} =>
           DOMAIN parents[c] \subseteq DOMAIN SeededParents(c)

\* The open directories that are registered in the ancestor map: the root,
\* which scantree registers, and every call that is past its link checks.
OpenRegistered(c) ==
  { stack[c][k].path : k \in { j \in 1..Len(stack[c]) : j = 1 \/ stack[c][j].phase # "enter" } }

\* C25: during a traversal with follow_links=True, of a root that is not a
\* symlink, the keys of the ancestor map are the real paths of the open
\* directories, each mapped to an open directory of that real path, and the
\* `del` at the end of a directory's enumeration always finds its key.
C25_ParentsAreOpenDirectories ==
  \A c \in Calls :
    (kw[c].follow_links /\ ~os_path_islink(fs, opt[c].directory)) =>
      /\ pc[c] = "recursive" =>
           /\ DOMAIN parents[c] = { o.real : o \in OpenRegistered(c) }
           /\ \A k \in DOMAIN parents[c] :
                parents[c][k] \in OpenRegistered(c) /\ parents[c][k].real = k
      /\ pc[c] = "raised" => error[c].type # "KeyError"

\* The function called and the path of its argument, for each call of a log
\* of apply on a tree whose files are paths.
CallKeys(calls) ==
  [i \in 1..Len(calls) |->
     [fn |-> calls[i].fn,
      path |-> IF calls[i].fn = "file_apply" THEN calls[i].arg ELSE calls[i].arg.path]]

\* The calls of apply in the order C26 gives: file_apply on the files of the
\* node, then apply on each subdirectory, then dir_apply on the node.
RECURSIVE CallsFilesFirst(_)
CallsFilesFirst(node) ==
  IF node.type # "DirNode" THEN <<[fn |-> "dir_apply", path |-> node.path]>>
  ELSE LET RECURSIVE SubCalls(_)
           SubCalls(i) ==
             IF i > Len(node.directories) THEN <<>>
             ELSE CallsFilesFirst(node.directories[i]) \o SubCalls(i + 1)
       IN [i \in 1..Len(node.files) |-> [fn |-> "file_apply", path |-> node.files[i]]]
            \o SubCalls(1)
            \o <<[fn |-> "dir_apply", path |-> node.path]>>

\* C26: tree.apply(d, f) calls, at every node, f on each file of the node,
\* then apply on each subdirectory, then d on the node.
C26_ApplyOrder ==
  \A c \in Calls :
    Called(c, "apply") =>
      CallKeys(apply(result[c], method[c].dir_apply, method[c].file_apply).calls)
        = CallsFilesFirst(result[c])

\* real is the canonical resolution of the absolute path.
RealIsCanonical(p) == p.real = os_path_realpath(fs, absolute(p))

\* C27: the path of the directory listed last has a real that is the canonical
\* resolution of its absolute path, the root has relative '', and every path
\* generated for an entry of the directory has the root of the directory, the
\* relative of the directory joined with the entry's name and a real that is
\* the canonical resolution of its absolute path, symlink or not.
C27_RelativeAndReal ==
  \A c \in Calls :
    (JustListed(c) /\ Top(c).dirs = <<>> /\ Top(c).files = <<>>) =>
      /\ RealIsCanonical(Top(c).path)
      /\ stack[c][1].path.relative = <<>>
      /\ stack[c][1].path.root = opt[c].directory
      /\ \A q \in ListedNow(c) :
           /\ q.root = Top(c).path.root
           /\ q.relative = (IF Top(c).path.relative = <<>> THEN q.dir_entry.name
                            ELSE Top(c).path.relative \o <<"/">> \o q.dir_entry.name)
           /\ RealIsCanonical(q)

\* C27 happens: the followed link D/toB -> A/B has been listed and its entry f,
\* not a symlink, has the real path A/B/f by a plain join.
C27_Witness ==
  \E c \in Calls :
    /\ JustListed(c) /\ Top(c).dirs = <<>> /\ Top(c).files = <<>>
    /\ Top(c).path.relative = <<"D", "/", "t", "o", "B">>
    /\ Top(c).path.real = Dir_B
    /\ \E q \in ListedNow(c) :
         /\ ~q.dir_entry.is_symlink
         /\ q.relative = <<"D", "/", "t", "o", "B", "/", "f">>
         /\ q.real = Dir_B \o <<"/", "f">>

Ended(c) == pc[c] \in {"done", "raised"}

\* C28: of two invocations with the same arguments whose steps interleave,
\* each has the ancestor map and the cache of its own position in the
\* traversal, whatever the other has done, and both end with the same result
\* or the same error.
C28_ConcurrentCallsAreIndependent ==
  /\ (pc[1] = pc[2] /\ stack[1] = stack[2] /\ ret[1] = ret[2]) =>
       (parents[1] = parents[2] /\ cache[1] = cache[2])
  /\ (Ended(1) /\ Ended(2)) =>
       (pc[1] = pc[2] /\ result[1] = result[2] /\ error[1] = error[2])

\* C28 happens: one invocation has A/B open while the other, having left A/B,
\* has expanded the link D/toB -> A/B.
C28_Witness ==
  /\ pc[1] = "recursive" /\ pc[2] = "recursive"
  /\ stack[1] # <<>> /\ stack[2] # <<>>
  /\ Top(1).path.relative = <<"A", "/", "B">> /\ Top(1).phase = "loop"
  /\ Top(2).path.relative = <<"D", "/", "t", "o", "B">> /\ Top(2).phase = "loop"
  /\ Dir_B \in DOMAIN parents[1] /\ Dir_B \in DOMAIN parents[2]
  /\ parents[1][Dir_B] # parents[2][Dir_B]

\* The call returned a tree that holds a CyclicLinkedDir.
ReturnedCyclic(c) ==
  pc[c] = "done" /\ \E n \in Nodes(result[c]) : n.type = "CyclicLinkedDir"

\* C29: of two calls with follow_links=True on the same tree with the same
\* filter and include_empty, the one with allow_cyclic_links=False raises
\* SymlinkRecursionError exactly when the one with allow_cyclic_links=True
\* returns a tree that holds a CyclicLinkedDir, and when that tree holds none
\* both return the same tree.
C29_RaisesIffCyclicNode ==
  (pc[1] \in {"done", "raised"} /\ pc[2] \in {"done", "raised"}) =>
    /\ (pc[1] = "raised" /\ error[1].type = "SymlinkRecursionError") <=> ReturnedCyclic(2)
    /\ (pc[2] = "done" /\ ~ReturnedCyclic(2)) => (pc[1] = "done" /\ result[1] = result[2])

\* The listing of `path` that passes the filter of call c, in the order of
\* sorted().
SortedListing(c, path) == SortedOf(Listed(c, path))

\* The files the traversal of call c visits under `path`, in the order it
\* visits them: the loop over the sorted listing, which descends into a
\* directory whose scandir() was called and passes a file to file_apply.
RECURSIVE VisitedFrom(_, _, _)
VisitedFrom(c, entries, i) ==
  IF i > Len(entries) THEN <<>>
  ELSE LET subpath == entries[i]
           here == IF is_dir(subpath)
                   THEN IF subpath \in Range(scanned[c])
                        THEN VisitedFrom(c, SortedListing(c, subpath), 1)
                        ELSE <<>>
                   ELSE IF is_file(subpath) THEN <<subpath>> ELSE <<>>
       IN here \o VisitedFrom(c, entries, i + 1)

Visited(c) == VisitedFrom(c, SortedListing(c, result[c].path), 1)

\* The first path of a sequence of visited files that has the real path `real`.
FirstVisited(visited, real) ==
  visited[CHOOSE i \in 1..Len(visited) :
            /\ visited[i].real = real
            /\ \A j \in 1..(i - 1) : visited[j].real # real]

\* The files of the directory of a node, in the order of its `files`.
OwnFiles(c, node) ==
  LET entries == SortedListing(c, node.path)
  IN SelectSeq(entries, is_file)

\* The DirNodes of a tree reached through `directories`, whatever the
\* entries of `directories` are.
RECURSIVE DirNodesOf(_)
DirNodesOf(node) ==
  IF "type" \in DOMAIN node /\ node.type = "DirNode"
  THEN {node} \cup UNION { DirNodesOf(node.directories[i]) : i \in 1..Len(node.directories) }
  ELSE {}

\* The `files` of every DirNode of the tree of call c hold, for each file of
\* the directory, file_apply of the first visited path with its real path.
FilesHoldResultOfFirst(c) ==
  LET visited == Visited(c)
  IN \A n \in DirNodesOf(result[c]) :
       LET own == OwnFiles(c, n)
       IN /\ Len(n.files) = Len(own)
          /\ \A k \in 1..Len(own) :
               n.files[k] = call_file_apply(opt[c].file_apply, FirstVisited(visited, own[k].real))

\* The `files` of every DirNode of root_dir_node hold, for each file of the
\* directory, an index of file_paths at which the first visited path with its
\* real path is recorded.
PlaceholdersAreValid(c) ==
  LET visited == Visited(c)
  IN \A n \in DirNodesOf(result[c]) :
       LET own == OwnFiles(c, n)
       IN /\ Len(n.files) = Len(own)
          /\ \A k \in 1..Len(own) :
               /\ n.files[k] \in 0..(Len(file_paths[c]) - 1)
               /\ file_paths[c][n.files[k] + 1] = FirstVisited(visited, own[k].real)

\* C30: with cache_file_apply=True the tree a call returns holds, for every
\* file, the caller's file_apply of the first path visited in traversal order
\* with the real path of that file, with jobs=1 and with jobs>1; with jobs>1
\* every index placeholder of root_dir_node is a valid position of file_paths,
\* where that first path is recorded.
C30_CachedResultIsOfFirstPath ==
  \A c \in Calls :
    (opt[c].cache_file_apply /\ method[c] = None /\ result[c].type = "DirNode") =>
      /\ pc[c] = "pool_map" => PlaceholdersAreValid(c)
      /\ pc[c] = "done" => FilesHoldResultOfFirst(c)

====
